---- MODULE Spec2Model ----
(***************************************************************************)
(* Model of tidc: the Scanner (src/parser/scanner.rs), the grammar layer   *)
(* (src/parser/artifacts.rs) and the JSON serializer (src/json_writer).    *)
(*                                                                         *)
(* A Rust `str` is modelled as a sequence of characters, each character    *)
(* being its Unicode code point.  Offsets are BYTE offsets into the UTF-8  *)
(* encoding, as in the code (char_indices, consume, split_at, slicing).    *)
(***************************************************************************)
EXTENDS Integers, Sequences, FiniteSets, TLC

-----------------------------------------------------------------------------
(* Characters the code names in literals. *)
QUOTE == 34
BACKSLASH == 92
LBRACKET == 91
RBRACKET == 93
EQUALS == 61
COLON == 58
COMMA == 44
LBRACE == 123
RBRACE == 125
SPACE == 32
DOLLAR == 36
CARET == 94
GT == 62
LT == 60
NEWLINE == 10

-----------------------------------------------------------------------------
(* UTF-8 arithmetic of str. *)

Utf8Len(ch) == IF ch < 128 THEN 1 ELSE IF ch < 2048 THEN 2 ELSE IF ch < 65536 THEN 3 ELSE 4

RECURSIVE ByteLenFrom(_, _)
ByteLenFrom(s, i) == IF i > Len(s) THEN 0 ELSE Utf8Len(s[i]) + ByteLenFrom(s, i + 1)

(* str::len(): the length in bytes. *)
ByteLen(s) == ByteLenFrom(s, 1)

(* char_indices(): the byte index of the i-th character (i from 1). *)
ByteIndex(s, i) == ByteLen(SubSeq(s, 1, i - 1))

(* The number of characters of s, from the i-th on, that make up exactly   *)
(* n bytes, counted from i - 1; -1 when byte n is inside a character or    *)
(* beyond the end.                                                         *)
RECURSIVE CharsIn(_, _, _)
CharsIn(s, i, n) ==
    IF n = 0 THEN i - 1
    ELSE IF i > Len(s) \/ Utf8Len(s[i]) > n THEN -1
    ELSE CharsIn(s, i + 1, n - Utf8Len(s[i]))

(* str::is_char_boundary *)
IsCharBoundary(s, n) == CharsIn(s, 1, n) # -1

CharsBefore(s, n) == CharsIn(s, 1, n)

(* s[a..b] on bytes; the caller has checked both ends are char boundaries. *)
ByteSlice(s, a, b) == SubSeq(s, CharsBefore(s, a) + 1, CharsBefore(s, b))

(* The characters of the model: the code points below 256.  A predicate   *)
(* on char (impl Fn(char) -> bool) is the set of characters it accepts.    *)
Char == 0..255

RECURSIVE FirstIndexFrom(_, _, _)
FirstIndexFrom(s, i, P) ==
    IF i > Len(s) THEN 0 ELSE IF s[i] \in P THEN i ELSE FirstIndexFrom(s, i + 1, P)

(* The index of the first character of s that is in P, 0 when there is none. *)
FirstIndex(s, P) == FirstIndexFrom(s, 1, P)

(* char::is_whitespace (White_Space), restricted to code points below 256. *)
is_whitespace == (9..13) \cup {32, 133, 160}

-----------------------------------------------------------------------------
(* Results of scanner operations: Ok(value), Err(ParseError) or a panic.   *)
(* Each carries the scanner as the operation left it.                      *)

NoValue == <<>>
ErrEmpty == [kind |-> "Empty", expected |-> <<>>, got |-> <<>>, hint |-> <<>>]
ErrUnexpected(expected, got, hint) ==
    [kind |-> "Unexpected", expected |-> expected, got |-> got, hint |-> hint]

Ok(v, sc) == [kind |-> "ok", val |-> v, err |-> ErrEmpty, sc |-> sc]
Err(e, sc) == [kind |-> "err", val |-> NoValue, err |-> e, sc |-> sc]
Panic(sc) == [kind |-> "panic", val |-> NoValue, err |-> ErrEmpty, sc |-> sc]

-----------------------------------------------------------------------------
(* Scanner *)

over(s) == [target |-> s, remain |-> s, offset |-> 0]

is_done(sc) == sc.offset >= ByteLen(sc.target)

(* Mutant: the offset stored before the length is checked. *)
consume_sets_offset_first(sc, n) ==
    LET split_at(k) ==
            Ok(SubSeq(sc.remain, 1, k),
               [sc EXCEPT !.offset = @ + n,
                          !.remain = SubSeq(sc.remain, k + 1, Len(sc.remain))])
    IN  IF sc.offset + n > ByteLen(sc.target)
        THEN Err(ErrEmpty, [sc EXCEPT !.offset = @ + n])
        ELSE IF ~IsCharBoundary(sc.remain, n) THEN Panic([sc EXCEPT !.offset = @ + n])
        ELSE split_at(CharsBefore(sc.remain, n))

consume(sc, n) ==
    LET split_at(k) ==
            Ok(SubSeq(sc.remain, 1, k),
               [sc EXCEPT !.offset = @ + n,
                          !.remain = SubSeq(sc.remain, k + 1, Len(sc.remain))])
    IN  IF sc.offset + n > ByteLen(sc.target) THEN Err(ErrEmpty, sc)
        ELSE IF ~IsCharBoundary(sc.remain, n) THEN Panic([sc EXCEPT !.offset = @ + n])
        ELSE split_at(CharsBefore(sc.remain, n))

drain(sc) == consume(sc, ByteLen(sc.target) - sc.offset)

(* peek_char: the next character, or <<>> for None. *)
peek_char(sc) == IF sc.remain = <<>> THEN <<>> ELSE <<Head(sc.remain)>>

(* Mutant: the range written exclusive, `'\x00'..'\x20'`. *)
char_need_quote_exclusive_range == (0..31) \cup {EQUALS, QUOTE, LBRACKET, RBRACKET}

char_need_quote == (0..32) \cup {EQUALS, QUOTE, LBRACKET, RBRACKET}

unquoted_string(sc) ==
    LET found(i) == IF i # 0 THEN consume(sc, ByteIndex(sc.remain, i)) ELSE drain(sc)
    IN  found(FirstIndex(sc.remain, char_need_quote))

current_char(sc) == IF sc.remain = <<>> THEN DOLLAR ELSE Head(sc.remain)

ContextBeforeAmount == 5
ContextAfterAmount == 10

(* context_before / context_after slice by bytes: a slice that does not    *)
(* fall on a character boundary panics.                                    *)
context_before_panics(sc) ==
    /\ sc.offset > ContextBeforeAmount
    /\ ~IsCharBoundary(sc.target, sc.offset - ContextBeforeAmount)

context_before(sc) ==
    IF sc.offset = 0 THEN <<CARET>>
    ELSE IF sc.offset <= ContextBeforeAmount THEN ByteSlice(sc.target, 0, sc.offset)
    ELSE ByteSlice(sc.target, sc.offset - ContextBeforeAmount, sc.offset)

context_after_panics(sc) ==
    /\ ByteLen(sc.target) - sc.offset > ContextAfterAmount
    /\ ~IsCharBoundary(sc.remain, ContextAfterAmount)

context_after(sc) ==
    LET after(x) ==
            IF x = 0 THEN <<>>
            ELSE IF x <= ContextAfterAmount THEN ByteSlice(sc.remain, 0, x)
            ELSE ByteSlice(sc.remain, 0, ContextAfterAmount)
    IN  after(ByteLen(sc.target) - sc.offset)

(* unexpected(): builds the error with its hint; Err, or Panic when the    *)
(* hint cannot be sliced.                                                  *)
unexpected(sc, expected, got) ==
    IF context_before_panics(sc) \/ context_after_panics(sc) THEN Panic(sc)
    ELSE Err(ErrUnexpected(expected, got,
                 context_before(sc) \o <<GT, current_char(sc), LT>> \o context_after(sc)),
             sc)

(* Mutant: the automaton without its Escaping state after a `\`. *)
QuotedEnd_no_escape(s, i, state) ==
    IF \E j \in (i + 1)..Len(s) : s[j] = QUOTE
    THEN CHOOSE j \in (i + 1)..Len(s) : s[j] = QUOTE /\ \A k \in (i + 1)..(j - 1) : s[k] # QUOTE
    ELSE 0

(* The index in s of the closing quote found by quoted_string's automaton, *)
(* scanning from character i in the given state; 0 when the loop ends.     *)
RECURSIVE QuotedEnd(_, _, _)
QuotedEnd(s, i, state) ==
    IF i > Len(s) THEN 0
    ELSE IF state = "Escaping" THEN QuotedEnd(s, i + 1, "Scanning")
    ELSE IF s[i] = QUOTE THEN i
    ELSE IF s[i] = BACKSLASH THEN QuotedEnd(s, i + 1, "Escaping")
    ELSE QuotedEnd(s, i + 1, "Scanning")

S_EOF == <<69, 79, 70>>

quoted_string(sc) ==
    LET found(i) == IF i # 0 THEN consume(sc, ByteIndex(sc.remain, i) + 1)
                    ELSE unexpected(sc, <<QUOTE>>, S_EOF)
    IN  found(QuotedEnd(sc.remain, 1, "Escaping"))

assert_current_is(sc, expected) ==
    IF sc.remain = <<>> THEN Err(ErrEmpty, sc)
    ELSE IF Head(sc.remain) = expected THEN Ok(NoValue, sc)
    ELSE unexpected(sc, <<expected>>, <<Head(sc.remain)>>)

consume_exact(sc, expected) ==
    LET consumed(c) == IF c.kind = "ok" THEN Ok(NoValue, c.sc) ELSE c
        asserted(a) == IF a.kind # "ok" THEN a ELSE consumed(consume(a.sc, 1))
    IN  asserted(assert_current_is(sc, expected))

(* skip_until: consumes up to the first character satisfying f; when no    *)
(* character satisfies f the loop ends and nothing is consumed.            *)
skip_until(sc, f) ==
    LET found(i) == IF i # 0 THEN consume(sc, ByteIndex(sc.remain, i)).sc ELSE sc
    IN  found(FirstIndex(sc.remain, f))

skip_while(sc, f) == skip_until(sc, Char \ f)

skip_space(sc) == skip_while(sc, is_whitespace)

till_next_bracket(sc) ==
    LET found(i) == IF i # 0 THEN consume(sc, ByteIndex(sc.remain, i)) ELSE Err(ErrEmpty, sc)
    IN  found(FirstIndex(sc.remain, {RBRACKET}))

(* consume_until(f): the unquoted token read with a caller-supplied stop   *)
(* predicate: consumes up to the first character satisfying f, or to the   *)
(* end of the input.                                                       *)
consume_until(sc, f) ==
    LET found(i) == IF i # 0 THEN consume(sc, ByteIndex(sc.remain, i)) ELSE drain(sc)
    IN  found(FirstIndex(sc.remain, f))

-----------------------------------------------------------------------------
(* Value model and grammar layer *)

Quoted(s) == [tag |-> "Quoted", s |-> s]
Unquoted(s) == [tag |-> "Unquoted", s |-> s]

LogStr_from_str(s) ==
    IF s = <<>> THEN Unquoted(<<>>)
    ELSE IF Head(s) = QUOTE THEN Quoted(s)
    ELSE Unquoted(s)

LogStr_parse_from_sequence(sc) ==
    LET wrap(got) == IF got.kind = "ok" THEN Ok(LogStr_from_str(got.val), got.sc) ELSE got
    IN  wrap(IF sc.remain = <<>> THEN Err(ErrEmpty, sc)
             ELSE IF Head(sc.remain) = QUOTE THEN quoted_string(sc)
             ELSE unquoted_string(sc))

LogStr_scan_from_with_need_quote(sc, f) ==
    LET wrap(got) == IF got.kind = "ok" THEN Ok(LogStr_from_str(got.val), got.sc) ELSE got
    IN  wrap(IF sc.remain = <<>> THEN Err(ErrEmpty, sc)
             ELSE IF Head(sc.remain) = QUOTE THEN quoted_string(sc)
             ELSE consume_until(sc, f))

S_UNKNOWN == <<60, 117, 110, 107, 110, 111, 119, 110, 62>>   \* "<unknown>"

(* Mutant: the split at the first colon instead of the last. *)
FileLineRef_from_str_first_colon(s) ==
    LET split_at(i) == <<[file |-> SubSeq(s, 1, i - 1), line |-> SubSeq(s, i + 1, Len(s))]>>
    IN  IF s = S_UNKNOWN \/ FirstIndex(s, {COLON}) = 0 THEN <<>>
        ELSE split_at(FirstIndex(s, {COLON}))

(* Option<T>: <<>> is None, <<x>> is Some(x). *)
FileLineRef_from_str(s) ==
    LET split_at(i) == <<[file |-> SubSeq(s, 1, i - 1), line |-> Tail(SubSeq(s, i, Len(s)))]>>
        last(colons) ==
            IF colons = {} THEN <<>>
            ELSE split_at(CHOOSE i \in colons : \A j \in colons : j <= i)
    IN  IF s = S_UNKNOWN THEN <<>>
        ELSE last({i \in 1..Len(s) : s[i] = COLON})

LogFieldRef_scan_from(sc) ==
    LET with_value(key, value) ==
            IF value.kind # "ok" THEN value
            ELSE Ok([key |-> key.val, value |-> value.val], value.sc)
        with_eq(key, eq) ==
            IF eq.kind # "ok" THEN eq
            ELSE with_value(key, LogStr_parse_from_sequence(eq.sc))
        with_key(key) ==
            IF key.kind # "ok" THEN key
            ELSE with_eq(key, consume_exact(key.sc, EQUALS))
    IN  with_key(LogStr_parse_from_sequence(sc))

LogFieldRef_scan_from_with_need_quote(sc, f) ==
    LET with_value(key, value) ==
            IF value.kind # "ok" THEN value
            ELSE Ok([key |-> key.val, value |-> value.val], value.sc)
        with_eq(key, eq) ==
            IF eq.kind # "ok" THEN eq
            ELSE with_value(key, LogStr_scan_from_with_need_quote(eq.sc, f))
        with_key(key) ==
            IF key.kind # "ok" THEN key
            ELSE with_eq(key, consume_exact(key.sc, EQUALS))
    IN  with_key(LogStr_scan_from_with_need_quote(sc, f))

(* in_bracket(inner_parser): the inner parser is named by the function the *)
(* call site passes.                                                       *)
in_bracket(sc, inner_parser) ==
    LET closed(result, close) ==
            IF close.kind # "ok" THEN close ELSE Ok(result.val, close.sc)
        parsed(result) ==
            IF result.kind # "ok" THEN result
            ELSE closed(result, consume_exact(result.sc, RBRACKET))
        opened(open) ==
            IF open.kind # "ok" THEN open
            ELSE parsed(CASE inner_parser = "till_next_bracket" -> till_next_bracket(open.sc)
                          [] inner_parser = "LogStr::parse_from_sequence" ->
                                 LogStr_parse_from_sequence(open.sc)
                          [] inner_parser = "LogFieldRef::scan_from" ->
                                 LogFieldRef_scan_from(open.sc))
    IN  opened(consume_exact(sc, LBRACKET))

FileLineRef_scan_from(sc) ==
    LET wrap(src) == IF src.kind # "ok" THEN src ELSE Ok(FileLineRef_from_str(src.val), src.sc)
    IN  wrap(in_bracket(sc, "till_next_bracket"))

LogFieldRef_parse_from_field(sc) == in_bracket(sc, "LogFieldRef::scan_from")

S_FATAL == <<70, 65, 84, 65, 76>>
S_ERROR == <<69, 82, 82, 79, 82>>
S_WARN == <<87, 65, 82, 78>>
S_INFO == <<73, 78, 70, 79>>
S_DEBUG == <<68, 69, 66, 85, 71>>

LogLevel_from_str(s) ==
    CASE s = S_FATAL -> "Fatal"
      [] s = S_ERROR -> "Error"
      [] s = S_WARN -> "Warn"
      [] s = S_INFO -> "Info"
      [] s = S_DEBUG -> "Debug"
      [] OTHER -> "Unknown"

LogLevel_scan_from(sc) ==
    LET wrap(field) ==
            IF field.kind # "ok" THEN field ELSE Ok(LogLevel_from_str(field.val), field.sc)
    IN  wrap(in_bracket(sc, "till_next_bracket"))

TimeRef_from_str_unchecked(s) == [time_str |-> s]

-----------------------------------------------------------------------------
(* Serializer: each write_json_to is the text it writes. *)

HexDigit(n) == IF n < 10 THEN 48 + n ELSE 87 + n

Hex(n) == IF n < 16 THEN <<HexDigit(n)>> ELSE <<HexDigit(n \div 16), HexDigit(n % 16)>>

(* char::escape_debug as used by <str as Debug>::fmt, for code points      *)
(* below 256.                                                              *)
escape_debug(ch) ==
    CASE ch = 0 -> <<BACKSLASH, 48>>
      [] ch = 9 -> <<BACKSLASH, 116>>
      [] ch = 10 -> <<BACKSLASH, 110>>
      [] ch = 13 -> <<BACKSLASH, 114>>
      [] ch = QUOTE -> <<BACKSLASH, QUOTE>>
      [] ch = BACKSLASH -> <<BACKSLASH, BACKSLASH>>
      [] ch \in (1..31) \cup (127..159) \cup {173} ->
             <<BACKSLASH, 117, LBRACE>> \o Hex(ch) \o <<RBRACE>>
      [] OTHER -> <<ch>>

RECURSIVE EscapeAll(_)
EscapeAll(s) == IF s = <<>> THEN <<>> ELSE escape_debug(Head(s)) \o EscapeAll(Tail(s))

(* impl ToJSON for &str: format_args!("{:?}", self) *)
str_write_json(s) == <<QUOTE>> \o EscapeAll(s) \o <<QUOTE>>

(* Mutant: the quotes added around a Quoted value too. *)
LogStr_write_json_always_wraps(v) == <<QUOTE>> \o v.s \o <<QUOTE>>

LogStr_write_json(v) ==
    IF v.tag = "Quoted" THEN v.s ELSE <<QUOTE>> \o v.s \o <<QUOTE>>

(* impl Display for LogStr *)
LogStr_fmt(v) ==
    IF v.tag = "Quoted" THEN v.s ELSE <<QUOTE>> \o v.s \o <<QUOTE>>

LogLevel_write_json(l) ==
    str_write_json(CASE l = "Debug" -> <<100, 101, 98, 117, 103>>
                     [] l = "Info" -> <<105, 110, 102, 111>>
                     [] l = "Warn" -> <<119, 97, 114, 110>>
                     [] l = "Error" -> <<101, 114, 114, 111, 114>>
                     [] l = "Fatal" -> <<102, 97, 116, 97, 108>>
                     [] l = "Unknown" -> S_UNKNOWN)

(* JsonObjectBuilder: the text is `{`, then the fields written, then `}`.  *)
(* write_field on a builder whose text so far is b.                        *)
on_writer == [initial |-> TRUE, write |-> <<LBRACE>>]

write_field(b, key, value) ==
    [initial |-> FALSE,
     write |-> b.write \o (IF b.initial THEN <<>> ELSE <<COMMA>>) \o key \o <<COLON>> \o value]

end(b) == b.write \o <<RBRACE>>

S_file == <<102, 105, 108, 101>>
S_line == <<108, 105, 110, 101>>
S_message == <<109, 101, 115, 115, 97, 103, 101>>
S_level == <<108, 101, 118, 101, 108>>
S_source == <<115, 111, 117, 114, 99, 101>>
S_time == <<116, 105, 109, 101>>
S_fields == <<102, 105, 101, 108, 100, 115>>
S_null == <<110, 117, 108, 108>>

FileLineRef_write_json(f) ==
    end(write_field(write_field(on_writer, str_write_json(S_file), str_write_json(f.file)),
                    str_write_json(S_line), str_write_json(f.line)))

Option_FileLineRef_write_json(o) ==
    IF o = <<>> THEN S_null ELSE FileLineRef_write_json(o[1])

TimeRef_write_json(t) == t.time_str

RECURSIVE WriteEntries(_, _)
WriteEntries(b, es) ==
    IF es = <<>> THEN b
    ELSE WriteEntries(write_field(b, LogStr_write_json(Head(es).key),
                                  LogStr_write_json(Head(es).value)),
                      Tail(es))

(* impl ToJSON for &[LogFieldRef] *)
Fields_write_json(es) == end(WriteEntries(on_writer, es))

LogRecordRef_write_json(r) ==
    end(write_field(
          write_field(
            write_field(
              write_field(
                write_field(on_writer,
                            str_write_json(S_message), LogStr_write_json(r.message)),
                str_write_json(S_level), LogLevel_write_json(r.level)),
              str_write_json(S_source), Option_FileLineRef_write_json(r.source)),
            str_write_json(S_time), TimeRef_write_json(r.time)),
          str_write_json(S_fields), Fields_write_json(r.entries)))

-----------------------------------------------------------------------------
(* State *)

VARIABLES
    target,       \* Scanner.target: the line being parsed
    remain,       \* Scanner.remain
    offset,       \* Scanner.offset (bytes)
    pc,           \* the position of the parse in its function
    time,         \* locals of LogRecordRef::scan_from
    level,
    source,
    message,
    entries,      \* the fields collected so far (entries / vec)
    first,        \* with_zap_object's `first`
    result,       \* what the call returned: kind "none" while it runs
    callbacks,    \* how many times the callback was invoked
    output,       \* the text written to stdout
    diagnostics,  \* the errors reported on stderr
    gen           \* how the input line was built (never read by the program)

vars == <<target, remain, offset, pc, time, level, source, message, entries, first,
          result, callbacks, output, diagnostics, gen>>

Sc == [target |-> target, remain |-> remain, offset |-> offset]

SetSc(sc) == target' = sc.target /\ remain' = sc.remain /\ offset' = sc.offset

Running == [kind |-> "none", val |-> NoValue, err |-> ErrEmpty, at |-> "none"]

Returned(r, at) == [kind |-> r.kind, val |-> r.val, err |-> r.err, at |-> at]

InitCall(s, start, g) ==
    /\ target = s /\ remain = s /\ offset = 0
    /\ pc = start
    /\ time = NoValue /\ level = NoValue /\ source = NoValue /\ message = NoValue
    /\ entries = <<>>
    /\ first = TRUE
    /\ result = Running
    /\ callbacks = 0
    /\ output = <<>>
    /\ diagnostics = <<>>
    /\ gen = g

(* `?` on a failed step r of the function at position pc: the call returns *)
(* the error (or unwinds with the panic) with the scanner as r left it.    *)
Fail(r) ==
    /\ SetSc(r.sc)
    /\ result' = Returned(r, pc)
    /\ pc' = "done"

-----------------------------------------------------------------------------
(* Input lines of the uniformed-log mode *)

MaxFields == 2

T_t == <<116>>                                \* t
T_eaaa == <<233, 97, 97, 97>>                 \* éaaa
T_X == <<88>>                                 \* X
T_a1 == <<97, 58, 49>>                        \* a:1
T_m == <<109>>                                \* m
T_hw == <<34, 104, 32, 119, 34>>              \* "h w"
T_ab == <<97, 98>>                            \* ab

T_abs == <<97, 92>>                           \* a\

FixedParts ==
    << [time |-> T_t, level |-> S_INFO, source |-> T_a1, message |-> T_m],
       [time |-> T_eaaa, level |-> T_X, source |-> S_UNKNOWN, message |-> T_hw],
       [time |-> <<>>, level |-> S_WARN, source |-> T_ab, message |-> T_abs] >>

(* The texts put between the brackets of a trailing field, and for the     *)
(* well-formed ones the key and the value they spell.                      *)
FieldTexts ==
    << [text |-> <<97, 61, 98>>,                                  \* a=b
        ok |-> TRUE, key |-> Unquoted(<<97>>), value |-> Unquoted(<<98>>)],
       [text |-> <<34, 97, 32, 98, 34, 61, 34, 92, 34, 34>>,      \* "a b"="\""
        ok |-> TRUE, key |-> Quoted(<<34, 97, 32, 98, 34>>),
        value |-> Quoted(<<34, 92, 34, 34>>)],
       [text |-> <<97>>,                                          \* a   (no `=`)
        ok |-> FALSE, key |-> Unquoted(<<>>), value |-> Unquoted(<<>>)] >>

FieldSeqs == UNION {[1..n -> 1..Len(FieldTexts)] : n \in 0..MaxFields}

Bracketed(s) == <<LBRACKET>> \o s \o <<RBRACKET>>

RECURSIVE FieldsLine(_, _)
FieldsLine(fs, sep) ==
    IF fs = <<>> THEN <<>>
    ELSE sep \o Bracketed(FieldTexts[Head(fs)].text) \o FieldsLine(Tail(fs), sep)

RecordLine(fixed, sep, fs) ==
    LET line(p) ==
            Bracketed(p.time) \o sep \o Bracketed(p.level) \o sep \o Bracketed(p.source)
                \o sep \o Bracketed(p.message) \o FieldsLine(fs, sep)
    IN  line(FixedParts[fixed])

(* What happened to the line on its way: nothing, a trailing space, a cut  *)
(* after k characters, or character k replaced by `x`.                     *)
Damages(n) ==
    {<<"none", 0>>, <<"tail", 0>>} \cup {<<"cut", k>> : k \in 0..(n - 1)}
        \cup {<<"replace", k>> : k \in 1..n}

Damaged(s, d) ==
    CASE d[1] = "none" -> s
      [] d[1] = "tail" -> s \o <<SPACE>>
      [] d[1] = "cut" -> SubSeq(s, 1, d[2])
      [] d[1] = "replace" -> [s EXCEPT ![d[2]] = 120]

InitRecord ==
    \E fixed \in 1..Len(FixedParts), sep \in {<<>>, <<SPACE>>}, fs \in FieldSeqs :
        \E line \in {RecordLine(fixed, sep, fs)} :
            \E d \in Damages(Len(line)) :
                InitCall(Damaged(line, d), "time",
                         [fixed |-> fixed, sep |-> sep, fields |-> fs, damage |-> d])

-----------------------------------------------------------------------------
(* with_log_record: LogRecordRef::scan_from, then the callback *)

ScanTime ==
    /\ pc = "time"
    /\ \E r \in {in_bracket(Sc, "till_next_bracket")} :
           IF r.kind = "ok"
           THEN /\ time' = TimeRef_from_str_unchecked(r.val)
                /\ SetSc(skip_space(r.sc))
                /\ pc' = "level"
                /\ UNCHANGED result
           ELSE Fail(r) /\ UNCHANGED time
    /\ UNCHANGED <<level, source, message, entries, first, callbacks, output,
                   diagnostics, gen>>

ScanLevel ==
    /\ pc = "level"
    /\ \E r \in {LogLevel_scan_from(Sc)} :
           IF r.kind = "ok"
           THEN /\ level' = r.val
                /\ SetSc(skip_space(r.sc))
                /\ pc' = "source"
                /\ UNCHANGED result
           ELSE Fail(r) /\ UNCHANGED level
    /\ UNCHANGED <<time, source, message, entries, first, callbacks, output,
                   diagnostics, gen>>

ScanSource ==
    /\ pc = "source"
    /\ \E r \in {FileLineRef_scan_from(Sc)} :
           IF r.kind = "ok"
           THEN /\ source' = r.val
                /\ SetSc(skip_space(r.sc))
                /\ pc' = "message"
                /\ UNCHANGED result
           ELSE Fail(r) /\ UNCHANGED source
    /\ UNCHANGED <<time, level, message, entries, first, callbacks, output,
                   diagnostics, gen>>

ScanMessage ==
    /\ pc = "message"
    /\ \E r \in {in_bracket(Sc, "LogStr::parse_from_sequence")} :
           IF r.kind = "ok"
           THEN /\ message' = r.val
                /\ SetSc(skip_space(r.sc))
                /\ pc' = "fields"
                /\ UNCHANGED result
           ELSE Fail(r) /\ UNCHANGED message
    /\ UNCHANGED <<time, level, source, entries, first, callbacks, output,
                   diagnostics, gen>>

(* Mutant: a field whose key is already among the entries is not pushed. *)
PushField_dedup ==
    /\ pc = "fields"
    /\ ~is_done(Sc)
    /\ \E r \in {LogFieldRef_parse_from_field(Sc)} :
           /\ r.kind = "ok"
           /\ entries' = IF \E i \in 1..Len(entries) : entries[i].key = r.val.key
                         THEN entries ELSE Append(entries, r.val)
           /\ SetSc(skip_space(r.sc))
    /\ UNCHANGED <<pc, time, level, source, message, first, result, callbacks, output,
                   diagnostics, gen>>

(* One iteration of the `while !scanner.is_done()` loop whose field parses. *)
PushField ==
    /\ pc = "fields"
    /\ ~is_done(Sc)
    /\ \E r \in {LogFieldRef_parse_from_field(Sc)} :
           /\ r.kind = "ok"
           /\ entries' = Append(entries, r.val)
           /\ SetSc(skip_space(r.sc))
    /\ UNCHANGED <<pc, time, level, source, message, first, result, callbacks, output,
                   diagnostics, gen>>

(* Mutant: the recovery without `consume_exact(']')?`. *)
SkipField_leaves_bracket ==
    /\ pc = "fields"
    /\ ~is_done(Sc)
    /\ \E r \in {LogFieldRef_parse_from_field(Sc)} :
           /\ r.kind # "ok"
           /\ IF r.kind = "panic"
              THEN Fail(r) /\ UNCHANGED diagnostics
              ELSE /\ diagnostics' = Append(diagnostics, r.err)
                   /\ SetSc(skip_until(r.sc, {RBRACKET}))
                   /\ UNCHANGED <<pc, result>>
    /\ UNCHANGED <<time, level, source, message, entries, first, callbacks, output, gen>>

(* One iteration whose field fails: the error is reported, the scanner     *)
(* skips to the next `]` and consumes it, and the loop continues.          *)
SkipField ==
    /\ pc = "fields"
    /\ ~is_done(Sc)
    /\ \E r \in {LogFieldRef_parse_from_field(Sc)} :
           /\ r.kind # "ok"
           /\ IF r.kind = "panic"
              THEN Fail(r) /\ UNCHANGED diagnostics
              ELSE /\ diagnostics' = Append(diagnostics, r.err)
                   /\ \E c \in {consume_exact(skip_until(r.sc, {RBRACKET}), RBRACKET)} :
                          IF c.kind = "ok"
                          THEN SetSc(c.sc) /\ UNCHANGED <<pc, result>>
                          ELSE Fail(c)
    /\ UNCHANGED <<time, level, source, message, entries, first, callbacks, output, gen>>

Record == [level |-> level, time |-> time, source |-> source, message |-> message,
           entries |-> entries]

(* The loop ends: scan_from returns the record and with_log_record hands   *)
(* it to the callback, which writes it and a newline to stdout.            *)
ReturnRecord ==
    /\ pc = "fields"
    /\ is_done(Sc)
    /\ callbacks' = callbacks + 1
    /\ output' = output \o LogRecordRef_write_json(Record) \o <<NEWLINE>>
    /\ result' = Returned(Ok(NoValue, Sc), pc)
    /\ pc' = "done"
    /\ UNCHANGED <<target, remain, offset, time, level, source, message, entries, first,
                   diagnostics, gen>>

NextRecord ==
    \/ ScanTime
    \/ ScanLevel
    \/ ScanSource
    \/ ScanMessage
    \/ PushField
    \/ SkipField
    \/ ReturnRecord

Spec == InitRecord /\ [][NextRecord]_vars

-----------------------------------------------------------------------------
(* Input lines of the zap-object mode *)

MaxZapFields == 2

ZapTexts ==
    << [text |-> <<97, 61, 49>>,                                  \* a=1
        ok |-> TRUE, key |-> Unquoted(<<97>>), value |-> Unquoted(<<49>>)],
       [text |-> <<34, 98, 32, 99, 34, 61, 34, 100, 44, 101, 34>>,  \* "b c"="d,e"
        ok |-> TRUE, key |-> Quoted(<<34, 98, 32, 99, 34>>),
        value |-> Quoted(<<34, 100, 44, 101, 34>>)],
       [text |-> <<233, 61>>,                                     \* é=
        ok |-> TRUE, key |-> Unquoted(<<233>>), value |-> Unquoted(<<>>)],
       [text |-> <<97>>,                                          \* a   (no `=`)
        ok |-> FALSE, key |-> Unquoted(<<>>), value |-> Unquoted(<<>>)] >>

ZapSeqs == UNION {[1..n -> 1..Len(ZapTexts)] : n \in 0..MaxZapFields}

RECURSIVE ZapJoin(_, _)
ZapJoin(fs, sep) ==
    IF fs = <<>> THEN <<>>
    ELSE IF Len(fs) = 1 THEN ZapTexts[Head(fs)].text
    ELSE ZapTexts[Head(fs)].text \o sep \o ZapJoin(Tail(fs), sep)

ZapLine(fs, sep) == <<LBRACE>> \o ZapJoin(fs, sep) \o <<RBRACE>>

InitZap ==
    \E fs \in ZapSeqs, sep \in {<<COMMA>>, <<COMMA, SPACE>>, <<SPACE, COMMA>>} :
        \E line \in {ZapLine(fs, sep)} :
            \E d \in Damages(Len(line)) :
                InitCall(Damaged(line, d), "open",
                         [fixed |-> 0, sep |-> sep, fields |-> fs, damage |-> d])

-----------------------------------------------------------------------------
(* with_zap_object *)

(* Mutant: the closure without `c == ','`. *)
zap_need_quote_no_comma == char_need_quote \cup {RBRACE, LBRACE}

zap_need_quote == char_need_quote \cup {COMMA, RBRACE, LBRACE}

S_comma_or_brace == <<39, 44, 39, 32, 111, 114, 32, 39, 125, 39>>   \* ',' or '}'

ZapOpen ==
    /\ pc = "open"
    /\ \E r \in {consume_exact(Sc, LBRACE)} :
           IF r.kind = "ok"
           THEN SetSc(r.sc) /\ pc' = "loop" /\ UNCHANGED result
           ELSE Fail(r)
    /\ UNCHANGED <<time, level, source, message, entries, first, callbacks, output,
                   diagnostics, gen>>

(* `if !first`: skip_space, then the match on peek_char. *)
ZapSeparator ==
    /\ pc = "loop"
    /\ ~first
    /\ \E s1 \in {skip_space(Sc)} :
           IF s1.remain = <<>>
           THEN /\ Fail(Err(ErrEmpty, s1))
                /\ UNCHANGED <<callbacks, output>>
           ELSE IF Head(s1.remain) = COMMA
           THEN /\ \E r \in {consume_exact(s1, COMMA)} :
                       IF r.kind = "ok"
                       THEN SetSc(r.sc) /\ pc' = "field" /\ UNCHANGED result
                       ELSE Fail(r)
                /\ UNCHANGED <<callbacks, output>>
           ELSE IF Head(s1.remain) = RBRACE
           THEN \E r \in {consume_exact(s1, RBRACE)} :
                    IF r.kind = "ok"
                    THEN /\ SetSc(r.sc)
                         /\ callbacks' = callbacks + 1
                         /\ output' = output \o Fields_write_json(entries) \o <<NEWLINE>>
                         /\ result' = Returned(Ok(NoValue, r.sc), pc)
                         /\ pc' = "done"
                    ELSE Fail(r) /\ UNCHANGED <<callbacks, output>>
           ELSE /\ Fail(unexpected(s1, S_comma_or_brace, <<Head(s1.remain)>>))
                /\ UNCHANGED <<callbacks, output>>
    /\ UNCHANGED <<time, level, source, message, entries, first, diagnostics, gen>>

(* `first = false`, then the field and the push. *)
ZapField ==
    /\ \/ pc = "loop" /\ first
       \/ pc = "field"
    /\ first' = FALSE
    /\ \E r \in {LogFieldRef_scan_from_with_need_quote(Sc, zap_need_quote)} :
           IF r.kind = "ok"
           THEN /\ entries' = Append(entries, r.val)
                /\ SetSc(r.sc)
                /\ pc' = "loop"
                /\ UNCHANGED result
           ELSE Fail(r) /\ UNCHANGED entries
    /\ UNCHANGED <<time, level, source, message, callbacks, output, diagnostics, gen>>

NextZap ==
    \/ ZapOpen
    \/ ZapSeparator
    \/ ZapField

SpecZap == InitZap /\ [][NextZap]_vars

-----------------------------------------------------------------------------
(* The value-level functions, called on their own on short inputs *)

MaxStrLen == 3
MaxQuotedLen == 6

(* `"`, `\`, `=`, `]`, space, tab, `a`, DEL, `é`, `:` *)
UnitAlphabet == {QUOTE, BACKSLASH, EQUALS, RBRACKET, SPACE, 9, 97, 127, 233, COLON}

(* `"`, `\`, `=`, `a` *)
QuotedAlphabet == {QUOTE, BACKSLASH, EQUALS, 97}

UnitInputs ==
    UNION {[1..n -> UnitAlphabet] : n \in 0..MaxStrLen}
        \cup UNION {[1..n -> QuotedAlphabet] : n \in 0..MaxQuotedLen}
        \cup {S_UNKNOWN, S_UNKNOWN \o <<COLON, 49>>, <<97, 58, 98, 58, 49, 50>>}

InitUnit == \E s \in UnitInputs : InitCall(s, "call", [fixed |-> 0])

(* LogStr::parse_from_sequence on a scanner over the input, and the value  *)
(* written as JSON.                                                        *)
CallParseFromSequence ==
    /\ pc = "call"
    /\ \E r \in {LogStr_parse_from_sequence(Sc)} :
           /\ SetSc(r.sc)
           /\ result' = Returned(r, "LogStr::parse_from_sequence")
           /\ output' = IF r.kind = "ok" THEN LogStr_write_json(r.val) ELSE <<>>
    /\ pc' = "done"
    /\ UNCHANGED <<time, level, source, message, entries, first, callbacks, diagnostics, gen>>

(* LogFieldRef::scan_from on a scanner over the input. *)
CallFieldScanFrom ==
    /\ pc = "call"
    /\ \E r \in {LogFieldRef_scan_from(Sc)} :
           /\ SetSc(r.sc)
           /\ result' = Returned(r, "LogFieldRef::scan_from")
           /\ output' = IF r.kind = "ok" THEN Fields_write_json(<<r.val>>) ELSE <<>>
    /\ pc' = "done"
    /\ UNCHANGED <<time, level, source, message, entries, first, callbacks, diagnostics, gen>>

(* FileLineRef::from_str on the input, and the Option written as JSON. *)
CallFileLineFromStr ==
    /\ pc = "call"
    /\ \E v \in {FileLineRef_from_str(target)} :
           /\ result' = Returned(Ok(v, Sc), "FileLineRef::from_str")
           /\ output' = Option_FileLineRef_write_json(v)
    /\ pc' = "done"
    /\ UNCHANGED <<target, remain, offset, time, level, source, message, entries, first,
                   callbacks, diagnostics, gen>>

NextUnit ==
    \/ CallParseFromSequence
    \/ CallFieldScanFrom
    \/ CallFileLineFromStr

SpecUnit == InitUnit /\ [][NextUnit]_vars

-----------------------------------------------------------------------------
(* Properties of with_log_record (specification Spec) *)

FixedStages == {"time", "level", "source", "message"}

Undamaged == gen.damage[1] = "none"

RECURSIVE WellFormedFields(_, _)
WellFormedFields(texts, fs) ==
    IF fs = <<>> THEN <<>>
    ELSE (IF texts[Head(fs)].ok
          THEN <<[key |-> texts[Head(fs)].key, value |-> texts[Head(fs)].value]>>
          ELSE <<>>) \o WellFormedFields(texts, Tail(fs))

Broken(texts, fs) == {i \in 1..Len(fs) : ~texts[fs[i]].ok}

(* C1: when the four fixed parts are well-formed and exactly one of the    *)
(* space-separated trailing fields is broken (it has no `=`), with         *)
(* well-formed fields after it, the scan succeeds and the record's fields  *)
(* are exactly the well-formed fields in input order.                      *)
C1_OnlyBrokenFieldDiscarded ==
    (/\ pc = "done"
     /\ Undamaged
     /\ gen.sep = <<SPACE>>
     /\ Cardinality(Broken(FieldTexts, gen.fields)) = 1
     /\ \E i \in Broken(FieldTexts, gen.fields) : i < Len(gen.fields))
    => (/\ result.kind = "ok"
        /\ entries = WellFormedFields(FieldTexts, gen.fields))

(* C2: once the time, level, source and message parts have been scanned,   *)
(* the call returns a record and the callback is invoked, whatever the     *)
(* rest of the line is.                                                    *)
C2_TrailingFieldErrorNeverFatal ==
    (pc = "done" /\ result.at \notin FixedStages)
    => (result.kind = "ok" /\ callbacks = 1)

(* The JSON text of a LogStr as the serializer's rules give it. *)
JsonOfLogStr(v) == IF v.tag = "Quoted" THEN v.s ELSE <<QUOTE>> \o v.s \o <<QUOTE>>

JsonKey(k) == <<QUOTE>> \o k \o <<QUOTE, COLON>>

(* C3: a parsed record is written as one JSON object with the keys         *)
(* message, level, source, time, fields in that order, the value of `time` *)
(* being the raw time text inside one pair of double quotes.               *)
C3_TimeIsJsonString ==
    (pc = "done" /\ result.kind = "ok")
    => output = <<LBRACE>> \o JsonKey(S_message) \o JsonOfLogStr(message)
                    \o <<COMMA>> \o JsonKey(S_level) \o LogLevel_write_json(level)
                    \o <<COMMA>> \o JsonKey(S_source) \o Option_FileLineRef_write_json(source)
                    \o <<COMMA>> \o JsonKey(S_time) \o <<QUOTE>> \o time.time_str \o <<QUOTE>>
                    \o <<COMMA>> \o JsonKey(S_fields) \o Fields_write_json(entries)
                    \o <<RBRACE, NEWLINE>>

(* C4: a failure in the time, level, source or message part is fatal:      *)
(* with_log_record returns the parse error, nothing is skipped or          *)
(* recovered, the callback is not invoked and nothing is written.          *)
C4_FixedPartFailureIsFatal ==
    (pc = "done" /\ result.at \in FixedStages)
    => (/\ result.kind = "err"
        /\ callbacks = 0
        /\ output = <<>>
        /\ diagnostics = <<>>
        /\ entries = <<>>)

(* A string that may stand between two `"` as a JSON string literal: no    *)
(* `"`, no control character below U+0020, every `\` starting an escape.   *)
RECURSIVE JsonStringBody(_, _)
JsonStringBody(s, i) ==
    IF i > Len(s) THEN TRUE
    ELSE IF s[i] = QUOTE \/ s[i] < 32 THEN FALSE
    ELSE IF s[i] = BACKSLASH
         THEN /\ i + 1 <= Len(s)
              /\ \/ /\ s[i + 1] \in {QUOTE, BACKSLASH, 47, 98, 102, 110, 114, 116}
                    /\ JsonStringBody(s, i + 2)
                 \/ /\ s[i + 1] = 117
                    /\ i + 5 <= Len(s)
                    /\ \A j \in (i + 2)..(i + 5) : s[j] \in (48..57) \cup (65..70) \cup (97..102)
                    /\ JsonStringBody(s, i + 6)
    ELSE JsonStringBody(s, i + 1)

UnquotedValues ==
    {v \in {message} \cup {entries[i].key : i \in 1..Len(entries)}
                     \cup {entries[i].value : i \in 1..Len(entries)} : v.tag = "Unquoted"}

(* C8: every Unquoted value of a scanned record is safe to write between   *)
(* two `"` without escaping: the text is a well-formed JSON string.        *)
C8_UnquotedIsJsonSafe ==
    (pc = "done" /\ result.kind = "ok")
    => \A v \in UnquotedValues : JsonStringBody(v.s, 1)

-----------------------------------------------------------------------------
(* Properties of the value-level functions (specification SpecUnit) *)

Called(f) == pc = "done" /\ result.at = f

(* The number of `\` directly before character i of s. *)
BackslashRun(s, i) ==
    CHOOSE k \in 0..(i - 1) :
        /\ \A j \in (i - k)..(i - 1) : s[j] = BACKSLASH
        /\ (k = i - 1 \/ s[i - k - 1] # BACKSLASH)

(* Character i of s is a `"` after the opening one that no `\` escapes.    *)
UnescapedQuote(s, i) ==
    /\ i \in 2..Len(s)
    /\ s[i] = QUOTE
    /\ BackslashRun(SubSeq(s, 2, Len(s)), i - 1) % 2 = 0

(* The first unescaped `"` after the opening one, 0 when there is none. *)
ClosingQuote(s) ==
    IF \E i \in 2..Len(s) : UnescapedQuote(s, i)
    THEN CHOOSE i \in 2..Len(s) :
             UnescapedQuote(s, i) /\ \A j \in 2..(i - 1) : ~UnescapedQuote(s, j)
    ELSE 0

BeginsWithQuote(s) == s # <<>> /\ s[1] = QUOTE

QuotedSpan == SubSeq(target, 1, ClosingQuote(target))

(* C5: for an input that begins with `"` and has a later unescaped `"`,    *)
(* LogStr scan returns Quoted holding the span from the opening to the     *)
(* closing quote inclusive, leaves the cursor right after it, and writing  *)
(* or displaying the value gives that span byte for byte.                  *)
C5_QuotedRoundTrip ==
    (/\ Called("LogStr::parse_from_sequence")
     /\ BeginsWithQuote(target)
     /\ ClosingQuote(target) # 0)
    => (/\ result.kind = "ok"
        /\ result.val = Quoted(QuotedSpan)
        /\ remain = SubSeq(target, ClosingQuote(target) + 1, Len(target))
        /\ offset = ByteLen(QuotedSpan)
        /\ output = QuotedSpan
        /\ LogStr_fmt(result.val) = QuotedSpan)

C5_Witness ==
    /\ Called("LogStr::parse_from_sequence")
    /\ result.kind = "ok"
    /\ result.val.tag = "Quoted"
    /\ \E i \in 1..Len(result.val.s) : result.val.s[i] = BACKSLASH
    /\ remain # <<>>
    /\ output = result.val.s

(* Where the value of a scanned field starts in the input. *)
ValueStart == Len(result.val.key.s) + 2

ValueText == SubSeq(target, ValueStart, Len(target))

(* C6: a quoted string ends at the first `"` after the opening one that is *)
(* not escaped, and only there: quoted_string succeeds exactly when there  *)
(* is one and returns the text up to it; a quoted key and a quoted value   *)
(* of a key=value field end the same way.                                  *)
C6_EndsAtFirstUnescapedQuote ==
    /\ (Called("LogStr::parse_from_sequence") /\ BeginsWithQuote(target))
       => (/\ (result.kind = "ok") = (ClosingQuote(target) # 0)
           /\ result.kind = "ok" => Len(result.val.s) = ClosingQuote(target))
    /\ (Called("LogFieldRef::scan_from") /\ result.kind = "ok")
       => (/\ result.val.key.tag = "Quoted"
              => result.val.key.s = SubSeq(target, 1, ClosingQuote(target))
           /\ result.val.value.tag = "Quoted"
              => result.val.value.s = SubSeq(ValueText, 1, ClosingQuote(ValueText)))

C6_Witness ==
    /\ Called("LogFieldRef::scan_from")
    /\ result.kind = "ok"
    /\ result.val.value.tag = "Quoted"
    /\ \E i \in 1..(Len(result.val.value.s) - 1) :
           result.val.value.s[i] = BACKSLASH /\ result.val.value.s[i + 1] = QUOTE

(* The longest prefix of s with no character of stops, as a length. *)
PrefixLen(s, stops) ==
    CHOOSE k \in 0..Len(s) :
        /\ \A j \in 1..k : s[j] \notin stops
        /\ (k = Len(s) \/ s[k + 1] \in stops)

(* Unicode's control characters (Cc) below 256. *)
ControlChars == (0..31) \cup (127..159)

UnquotedResult(stops) ==
    /\ result.kind = "ok"
    /\ result.val = Unquoted(SubSeq(target, 1, PrefixLen(target, stops)))
    /\ remain = SubSeq(target, PrefixLen(target, stops) + 1, Len(target))
    /\ (remain = <<>> \/ remain[1] \in stops)
    /\ output = <<QUOTE>> \o result.val.s \o <<QUOTE>>

(* C7 as stated: for any input not beginning with `"`, LogStr scan returns *)
(* Unquoted holding the longest prefix with no stop character (control     *)
(* characters and space, `=`, `"`, `[`, `]`), leaves the cursor at the     *)
(* first stop character or at the end, and the value is written inside one *)
(* pair of `"`.                                                            *)
C7_AsStated ==
    (Called("LogStr::parse_from_sequence") /\ ~BeginsWithQuote(target))
    => UnquotedResult(ControlChars \cup {SPACE, EQUALS, QUOTE, LBRACKET, RBRACKET})

(* C7 amended: the same for any NON-EMPTY input not beginning with `"`,    *)
(* the stop characters being U+0000..U+0020, `=`, `"`, `[`, `]` (DEL and   *)
(* the controls above U+0020 are not stop characters); on the empty input  *)
(* the scan fails with Empty and consumes nothing.                         *)
C7_UnquotedLongestPrefix ==
    /\ (Called("LogStr::parse_from_sequence") /\ target # <<>> /\ ~BeginsWithQuote(target))
       => UnquotedResult((0..32) \cup {EQUALS, QUOTE, LBRACKET, RBRACKET})
    /\ (Called("LogStr::parse_from_sequence") /\ target = <<>>)
       => (result.kind = "err" /\ result.err.kind = "Empty" /\ offset = 0)

C7_Witness ==
    /\ Called("LogStr::parse_from_sequence")
    /\ result.kind = "ok"
    /\ result.val.tag = "Unquoted"
    /\ \E i \in 1..Len(result.val.s) : result.val.s[i] = 127
    /\ remain # <<>>
    /\ remain[1] = EQUALS

HasColon(s) == \E i \in 1..Len(s) : s[i] = COLON

(* C9: FileLineRef parsing of the source text s: `<unknown>` is absent;    *)
(* otherwise with a colon, file is what precedes the last colon and line   *)
(* what follows it (file + ":" + line = s, no colon in line); without a    *)
(* colon the source is absent.                                             *)
C9_FileLineSplitsAtLastColon ==
    Called("FileLineRef::from_str")
    => (/\ result.kind = "ok"
        /\ target = S_UNKNOWN => result.val = <<>>
        /\ (target # S_UNKNOWN /\ ~HasColon(target)) => result.val = <<>>
        /\ (target # S_UNKNOWN /\ HasColon(target))
           => (/\ Len(result.val) = 1
               /\ result.val[1].file \o <<COLON>> \o result.val[1].line = target
               /\ ~HasColon(result.val[1].line)))

C9_Witness ==
    /\ Called("FileLineRef::from_str")
    /\ Len(result.val) = 1
    /\ HasColon(result.val[1].file)
    /\ result.val[1].line # <<>>

-----------------------------------------------------------------------------
(* Properties of with_zap_object (specification SpecZap) *)

RECURSIVE JsonMembers(_)
JsonMembers(fs) ==
    IF fs = <<>> THEN <<>>
    ELSE JsonOfLogStr(Head(fs).key) \o <<COLON>> \o JsonOfLogStr(Head(fs).value)
             \o (IF Len(fs) = 1 THEN <<>> ELSE <<COMMA>>) \o JsonMembers(Tail(fs))

(* The input is `{` f1 `,` ... `,` fn `}` with n >= 1 well-formed fields. *)
WellFormedZapObject ==
    /\ Undamaged
    /\ gen.sep = <<COMMA>>
    /\ Len(gen.fields) >= 1
    /\ Broken(ZapTexts, gen.fields) = {}

(* C10: an input `{` f1 `,` ... `,` fn `}` with n >= 1 well-formed         *)
(* key=value fields parses to exactly those fields in input order, the     *)
(* callback is invoked once with them, and the output is one flat JSON     *)
(* object with one member per field in the same order.                     *)
C10_ZapObjectFieldsInOrder ==
    (pc = "done" /\ WellFormedZapObject)
    => (/\ result.kind = "ok"
        /\ entries = WellFormedFields(ZapTexts, gen.fields)
        /\ callbacks = 1
        /\ output = <<LBRACE>> \o JsonMembers(WellFormedFields(ZapTexts, gen.fields))
                        \o <<RBRACE, NEWLINE>>
        /\ remain = <<>>)

C10_Witness ==
    /\ pc = "done"
    /\ WellFormedZapObject
    /\ result.kind = "ok"
    /\ Len(entries) = 2
    /\ entries[1].key.tag = "Unquoted"
    /\ entries[2].value.tag = "Quoted"
    /\ callbacks = 1

(* The input is `{` f1 `, ` ... `, ` fn `}`: a space follows each comma.   *)
SpaceAfterComma ==
    /\ Undamaged
    /\ gen.sep = <<COMMA, SPACE>>
    /\ Len(gen.fields) >= 2
    /\ Broken(ZapTexts, gen.fields) = {}

(* C11: the zap-object decoder accepts `{key=value, key=value}`: the       *)
(* whitespace between a `,` and the next key is tolerated and the input    *)
(* yields the same fields as the form without that whitespace.             *)
C11_SpaceAfterCommaTolerated ==
    (pc = "done" /\ SpaceAfterComma)
    => (/\ result.kind = "ok"
        /\ entries = WellFormedFields(ZapTexts, gen.fields)
        /\ callbacks = 1)

-----------------------------------------------------------------------------
(* Order of the trailing fields (specification Spec) *)

(* The line is as it was written and every trailing field is well-formed. *)
AllFieldsParse == Undamaged /\ Broken(FieldTexts, gen.fields) = {}

(* The end of a record's output: the `fields` member, the closing brace    *)
(* and the newline.                                                        *)
FieldsMember(fs) ==
    <<QUOTE>> \o S_fields \o <<QUOTE, COLON, LBRACE>> \o JsonMembers(fs)
        \o <<RBRACE, RBRACE, NEWLINE>>

EndsWith(s, suffix) ==
    /\ Len(suffix) <= Len(s)
    /\ SubSeq(s, Len(s) - Len(suffix) + 1, Len(s)) = suffix

(* C12: for a record whose trailing fields all parse, the record's field   *)
(* sequence has one entry per bracketed key=value field in input order,    *)
(* also when keys repeat, and the serialized `fields` object has one       *)
(* key:value member per entry in the same order.                           *)
C12_FieldsKeepInputOrder ==
    (pc = "done" /\ AllFieldsParse)
    => (/\ result.kind = "ok"
        /\ Len(entries) = Len(gen.fields)
        /\ \A i \in 1..Len(entries) :
               /\ entries[i].key = FieldTexts[gen.fields[i]].key
               /\ entries[i].value = FieldTexts[gen.fields[i]].value
        /\ EndsWith(output, FieldsMember(WellFormedFields(FieldTexts, gen.fields))))

C12_Witness ==
    /\ pc = "done"
    /\ AllFieldsParse
    /\ gen.sep = <<SPACE>>
    /\ result.kind = "ok"
    /\ Len(entries) = 2
    /\ entries[1].key = entries[2].key
    /\ callbacks = 1

-----------------------------------------------------------------------------
(* skip_space as the record scan uses it (specification Spec) *)

(* The last step ended with skip_space: a fixed part was scanned, or a     *)
(* field was pushed and none was skipped.                                  *)
AfterSkipSpace ==
    \/ pc \in {"level", "source", "message"}
    \/ pc = "fields" /\ diagnostics = <<>>

(* C13: skip_space (skip_while with is_whitespace) advances over the whole *)
(* run of whitespace at the cursor: after it the remainder is empty or     *)
(* begins with a character that is not whitespace, also when the run       *)
(* reaches the end of the input, so a well-formed record line followed by  *)
(* trailing whitespace is scanned to the end.                              *)
C13_SkipSpaceSkipsWholeRun ==
    /\ AfterSkipSpace => (remain = <<>> \/ Head(remain) \notin is_whitespace)
    /\ (pc = "done" /\ gen.damage[1] = "tail" /\ Broken(FieldTexts, gen.fields) = {})
       => (result.kind = "ok" /\ remain = <<>>)

-----------------------------------------------------------------------------
(* Termination of both decoders *)

(* main: the decoder named on the command line runs on a line of stdin.    *)
InitScan == InitRecord \/ InitZap

NextScan ==
    \/ NextRecord
    \/ NextZap

SpecScan == InitScan /\ [][NextScan]_vars

(* The positions inside the trailing-field loop and inside the zap loop.   *)
InLoop == pc \in {"fields", "loop", "field"}

(* What is left to do: nothing once the call has returned, else one more   *)
(* than the bytes the cursor has not passed.                               *)
Variant == IF pc = "done" THEN 0 ELSE 1 + ByteLen(target) - offset

(* C14: LogRecord scan and zap-object scan terminate on every input line:  *)
(* each iteration of the trailing-field loop and of the zap loop either    *)
(* consumes at least one character or returns, so no loop runs forever:    *)
(* every step of a call strictly decreases a natural number.               *)
C14_ScansTerminate ==
    /\ [][InLoop => (offset' > offset \/ pc' = "done")]_vars
    /\ [][Variant' < Variant]_vars
    /\ [](Variant \in Nat)

C14_Witness ==
    /\ pc = "done"
    /\ result.kind = "ok"
    /\ Len(diagnostics) >= 1
    /\ Len(entries) >= 1

-----------------------------------------------------------------------------
(* The scanner's operations, called in any order on a short buffer *)

MaxScanLen == 3

(* `"`, `\`, `[`, `]`, space, `a`, `é` *)
ScanAlphabet == {QUOTE, BACKSLASH, LBRACKET, RBRACKET, SPACE, 97, 233}

InitScanner ==
    \E s \in UNION {[1..n -> ScanAlphabet] : n \in 0..MaxScanLen} :
        InitCall(s, "scanner", [fixed |-> 0])

(* The operation `op` ended as r. *)
Did(op, r) ==
    /\ pc = "scanner"
    /\ SetSc(r.sc)
    /\ result' = Returned(r, op)
    /\ UNCHANGED <<pc, time, level, source, message, entries, first, callbacks, output,
                   diagnostics, gen>>

(* consume(n): n is a length derived from char_indices, so it ends on a    *)
(* character of the remainder, or it exceeds what is left.                 *)
OpConsume ==
    \E k \in 0..(Len(remain) + 1) :
        \E n \in {IF k <= Len(remain) THEN ByteIndex(remain, k + 1) ELSE ByteLen(remain) + 1} :
            Did("consume", consume(Sc, n))

OpDrain == Did("drain", drain(Sc))

OpConsumeExact == \E ch \in {LBRACKET, RBRACKET, QUOTE} : Did("consume_exact", consume_exact(Sc, ch))

OpQuotedString == Did("quoted_string", quoted_string(Sc))

OpUnquotedString == Did("unquoted_string", unquoted_string(Sc))

OpTillNextBracket == Did("till_next_bracket", till_next_bracket(Sc))

OpSkipUntil == Did("skip_until", Ok(NoValue, skip_until(Sc, {RBRACKET})))

OpSkipSpace == Did("skip_space", Ok(NoValue, skip_space(Sc)))

OpInBracket ==
    \E inner \in {"till_next_bracket", "LogStr::parse_from_sequence"} :
        Did("in_bracket", in_bracket(Sc, inner))

NextScanner ==
    \/ OpConsume
    \/ OpDrain
    \/ OpConsumeExact
    \/ OpQuotedString
    \/ OpUnquotedString
    \/ OpTillNextBracket
    \/ OpSkipUntil
    \/ OpSkipSpace
    \/ OpInBracket

SpecScanner == InitScanner /\ [][NextScanner]_vars

(* The remainder is the suffix of the buffer that starts at byte offset.   *)
RemainIsSuffix ==
    /\ IsCharBoundary(target, offset)
    /\ remain = SubSeq(target, CharsBefore(target, offset) + 1, Len(target))

(* The operations the claim names as leaving the cursor alone on failure.  *)
AtomicOnFailure == {"consume", "consume_exact", "quoted_string", "till_next_bracket"}

(* C15: after any sequence of scanner operations, successful or failing,   *)
(* 0 <= offset <= length of the buffer and the remainder is the suffix of  *)
(* the buffer starting at offset; the offset never decreases, also when    *)
(* in_bracket fails part-way; and a failing consume, consume_exact,        *)
(* quoted_string or till_next_bracket leaves offset and remainder          *)
(* unchanged.                                                              *)
C15_CursorInvariant ==
    /\ [](0 <= offset /\ offset <= ByteLen(target) /\ RemainIsSuffix)
    /\ [][offset' >= offset]_vars
    /\ [][(result'.kind # "ok" /\ result'.at \in AtomicOnFailure)
          => (offset' = offset /\ remain' = remain)]_vars

(* in_bracket has failed after the cursor had passed the `[`.              *)
C15_Witness ==
    /\ result.at = "in_bracket"
    /\ result.kind = "err"
    /\ offset = 1
    /\ target # <<>>
    /\ Head(target) = LBRACKET
    /\ remain # <<>>

====
